---- MODULE Spec2Model ----
(***************************************************************************)
(* The trading bridge of ai_trading_bridge.py: order factory, risk         *)
(* manager, mock broker, SQLite persistence helpers, the coordinator's     *)
(* submit_order, its worker loop, heartbeat loop and shutdown, the bot     *)
(* registry, the tick feed and the event listeners; and the bot manager    *)
(* of multi_bot_manager.py with the run loops of its bots.                 *)
(*                                                                         *)
(* Representation.                                                         *)
(*  - Python's None / absent value is the empty set, a present value v is  *)
(*    the singleton {v} (order price, executed_at, meta entries, result    *)
(*    fields).                                                             *)
(*  - Money is in whole dollars, quantities in whole lots.                 *)
(*  - A positions row keeps avg_price as the exact fraction cost / qty:    *)
(*    INSERT stores avg_price = p as cost = p * qty, UPDATE stores         *)
(*    (old_avg * old_qty + p * qty) / new_qty as cost = old_cost + p * qty.*)
(*    Float rounding is not modelled.                                      *)
(*  - max_order_size_pct is held in percent (0.1 is 10).                   *)
(*  - assess_order and the mock broker ask the broker for the market       *)
(*    price, never the bridge's market cache; the cache is written by the  *)
(*    tick feed only.                                                      *)
(*  - A dict is the sequence of its entries in insertion order; pop()      *)
(*    leaves the entry's slot empty ("") and a new key is appended.  The   *)
(*    entry table is never rebuilt within the bounds (a dict of fewer than *)
(*    six entries).                                                        *)
(*  - Within an order's processing _emit is recorded as a count of calls   *)
(*    per order and event name; the listeners and the loop over them are   *)
(*    modelled on their own (EmitSpec).                                    *)
(*  - The pure functions (assess_order, db_upsert_position,                *)
(*    execute_order) are also exercised on their own, over inputs drawn    *)
(*    from bounded sets, by specifications that leave the bridge's         *)
(*    variables alone.                                                     *)
(*  - An asyncio task is new (made, its coroutine not yet run), sleeping   *)
(*    (at its await), cancelling (cancelled at its await, the              *)
(*    CancelledError not yet delivered) or done.  start_all numbers the    *)
(*    tasks it makes by ascending bot_id; the numbering has no other       *)
(*    meaning.                                                             *)
(***************************************************************************)
EXTENDS Integers, Sequences, FiniteSets, TLC

\* ------------------------------------------------------------------ bounds
\* distinct orders built by create_order
MaxOrders == 2
\* submit_order calls in one run (first submissions and re-submissions)
MaxSubmits == 2
\* register_bot and unregister_bot calls in one run
MaxRegistryOps == 3
\* update_market_price calls in one run
MaxTicks == 1
\* cancel_order calls in one run
MaxCancels == 1
\* execute_order calls in one run of the mock broker on its own
MaxExecs == 2
\* register_bot and unregister_bot calls in one run of the bot objects
MaxBotCalls == 4
\* fills of one (user, symbol) in one run of the position upserts
MaxFills == 3
\* MultiBotManager: TradingBot objects made by create_bot in one run
MaxCreates == 3
\* MultiBotManager: asyncio tasks made by start_all in one run
MaxLoops == 2
\* MultiBotManager: profit ticks of all bots in one run
MaxProfits == 1
\* on() calls in one run
MaxOns == 3
\* _emit calls in one run of the listeners on their own
MaxEmits == 2

\* ------------------------------------------------------- program constants
DEFAULT_MAX_EXPOSURE == 50000
DEFAULT_MAX_POSITIONS == 10
DEFAULT_MAX_ORDER_SIZE_PCT == 10
DEFAULT_BALANCE_USD == 100000
\* int(time.time()): the clock is abstracted to one positive reading
TimeNow == 1

\* ------------------------------------------------------------ input sets
Users == {"u1", "u2"}
Symbols == {"BTCUSD", "ETHUSD"}
Sides == {"buy", "sell"}
Modes == {"paper", "live"}
\* caller threads inside submit_order at the same time
Callers == {1, 2}
\* the orders callers build: both users, symbols, sides, a limit price that
\* reaches the exposure limits and market orders (price None)
OrderChoices ==
  { [user_id |-> "u1", symbol |-> "BTCUSD", side |-> "buy", qty |-> 2, price |-> {25000}],
    [user_id |-> "u1", symbol |-> "BTCUSD", side |-> "sell", qty |-> 2, price |-> {25000}],
    [user_id |-> "u1", symbol |-> "ETHUSD", side |-> "buy", qty |-> 1, price |-> {}],
    [user_id |-> "u1", symbol |-> "BTCUSD", side |-> "sell", qty |-> 1, price |-> {}],
    [user_id |-> "u2", symbol |-> "BTCUSD", side |-> "buy", qty |-> 1, price |-> {}] }
\* orders with a negative or zero qty and with a price given as zero, which
\* create_order builds like any other (it validates nothing)
OddOrderChoices ==
  { [user_id |-> "u1", symbol |-> "BTCUSD", side |-> "buy", qty |-> 0 - 1, price |-> {}],
    [user_id |-> "u1", symbol |-> "BTCUSD", side |-> "sell", qty |-> 0 - 1, price |-> {}],
    [user_id |-> "u1", symbol |-> "ETHUSD", side |-> "buy", qty |-> 0, price |-> {}],
    [user_id |-> "u2", symbol |-> "BTCUSD", side |-> "buy", qty |-> 1, price |-> {0}],
    [user_id |-> "u2", symbol |-> "BTCUSD", side |-> "buy", qty |-> 1, price |-> {}] }

\* MockBroker.get_market_price: 100 + (|hash| % 1000)/10 plus noise in [-0.5, 0.5]
MarketPrices == {150}
\* the set_user_limits calls the environment makes: one user gets tighter
\* position and wider per-order limits, max_exposure is left as it is
LimitCalls ==
  { [user_id |-> "u1", max_exposure |-> {}, max_positions |-> {1}, max_order_pct |-> {100}] }

Terminal == {"filled", "failed", "rejected"}

\* the bots that are registered and unregistered: two ids for each user
BotIds == {"b1", "b2"}

Bots == Users \X BotIds

\* the prices the feed reports
TickPrices == {150, 160}

\* who changes the registry while a tick is dispatched: another thread, or
\* the tick handler of the bot being notified
RegistryCallers == {"thread", "handler"}

VARIABLES
  orders,        \* the order dicts, by order id
  db_orders,     \* table orders, by primary key id
  positions,     \* table positions, rows in insertion order
  audit,         \* table audit: number of entries per message
  orders_queue,  \* TradingBridge.orders_queue
  stop,          \* TradingBridge._stop
  worker,        \* the worker thread in _main_loop
  shut,          \* the thread in shutdown()
  callers,       \* the threads in submit_order
  returned,      \* mode and result of the submit_order call that returned last
  balances,      \* MockBroker.balances, USD
  user_limits,   \* RiskManager.user_limits
  enq_log,       \* history: order ids in the order they were queued
  exec_log,      \* history: queue entries in the order the broker got them
  fills,         \* history: per (user, symbol) the signed qty of all fills applied
  relimited,     \* history: users whose limits were set after they submitted an order
  n_calls,       \* history: number of submit_order calls
  emitted,       \* history: per order id, the _emit calls per event name
  env,           \* the run's environment: the orders callers build, and
                 \* whether the worker's persistence calls may raise
  at_stop,       \* history: the queue entries that were in orders_queue when
                 \* shutdown set the stop flag
  assess_args,   \* arguments of an assess_order call on its own
  assess_result, \* what that call returned, <<>> before it was made
  up_args,       \* a fill (user, symbol, qty, price) and the table it met
  up_table,      \* the positions table db_upsert_position is applied to
  up_step,       \* 0: nothing applied, 1: the buy fill, 2: then the sell fill
  bots_by_user,  \* TradingBridge.bots_by_user: the outer dict's keys and,
                 \* per user, the inner dict's entries
  market_cache,  \* TradingBridge.market_cache: per symbol the cached price
  tick,          \* the thread in update_market_price
  tick_log,      \* history of the update_market_price call in progress or last
  n_regs,        \* history: number of register_bot / unregister_bot calls
  n_ticks,       \* history: number of update_market_price calls
  heartbeat,     \* the heartbeat thread in _heartbeat_loop
  open_orders,   \* MockBroker.open_orders: the ids it holds
  cancelled,     \* history: the cancel_order calls made, each with whether
                 \* the order was waiting in orders_queue at the call
  bk_balances,   \* MockBroker.balances of a broker exercised on its own
  bk_limits,     \* the limits the orders given to that broker were checked with
  bk_last,       \* history: the last execute_order call, <<>> before the first
  n_execs,       \* history: number of execute_order calls on that broker
  event_listeners, \* TradingBridge.event_listeners: per event name the list
  emitting,      \* the thread in _emit: position in the list, and the
                 \* history of the call (listeners called, those that raised)
  n_ons,         \* history: number of on() calls
  n_emits,       \* history: number of _emit calls
  bot_active,    \* TradingBotBase.active of each bot object
  bot_registry,  \* bots_by_user as a map from (user, bot_id) to the bot
                 \* object stored there, 0 for no entry
  bot_log,       \* history: the objects that were registered at some time,
                 \* and the number of register_bot / unregister_bot calls
  seq_table,     \* the positions table a sequence of fills is applied to
  seq_prices,    \* history: the execution price of each of those fills
  mbm_bots,      \* MultiBotManager.bots: per bot_id the TradingBot object, 0
                 \* for no entry
  mbm_tasks,     \* MultiBotManager.tasks: per bot_id the task, 0 for no entry
  mbm_objs,      \* the TradingBot objects made so far: active, and the
                 \* number of profits added to balance
  mbm_loops,     \* the asyncio tasks made so far: the bot whose run() it
                 \* runs, and where it is
  mbm_call       \* the manager call in progress, and history of the last call

bridge_vars == <<orders, db_orders, positions, audit, orders_queue, stop,
                 worker, shut, callers, returned, balances, user_limits,
                 enq_log, exec_log, fills, relimited, n_calls, emitted,
                 env, at_stop>>

assess_vars == <<assess_args, assess_result>>

upsert_vars == <<up_args, up_table, up_step>>

feed_vars == <<bots_by_user, market_cache, tick, tick_log, n_regs, n_ticks>>

\* the variables of the parts that the bridge's order processing, the risk
\* check, the position upsert and the tick feed do not touch
cancel_vars == <<open_orders, cancelled>>

broker_vars == <<bk_balances, bk_limits, bk_last, n_execs>>

emit_vars == <<event_listeners, emitting, n_ons, n_emits>>

botobj_vars == <<bot_active, bot_registry, bot_log>>

fillseq_vars == <<seq_table, seq_prices>>

mbm_vars == <<mbm_bots, mbm_tasks, mbm_objs, mbm_loops, mbm_call>>

more_vars == <<heartbeat, cancel_vars, broker_vars, emit_vars, botobj_vars,
               fillseq_vars, mbm_vars>>

\* the variables that an order's processing leaves alone
side_vars == <<assess_vars, upsert_vars, feed_vars, more_vars>>

\* everything but the heartbeat thread
beside_heartbeat == <<bridge_vars, assess_vars, upsert_vars, feed_vars,
                      cancel_vars, broker_vars, emit_vars,
                   botobj_vars, fillseq_vars,
                   mbm_vars>>

\* everything but the mock broker's open orders
beside_cancel == <<bridge_vars, assess_vars, upsert_vars, feed_vars,
                   heartbeat, broker_vars, emit_vars,
                   botobj_vars, fillseq_vars,
                   mbm_vars>>

\* everything but the mock broker exercised on its own
beside_broker == <<bridge_vars, assess_vars, upsert_vars, feed_vars,
                   heartbeat, cancel_vars, emit_vars,
                   botobj_vars, fillseq_vars,
                   mbm_vars>>

\* everything but the bot objects
beside_botobj == <<bridge_vars, assess_vars, upsert_vars, feed_vars,
                   heartbeat, cancel_vars, broker_vars, emit_vars,
                   fillseq_vars, mbm_vars>>

\* everything but the sequence of fills
beside_fillseq == <<bridge_vars, assess_vars, upsert_vars, feed_vars,
                    heartbeat, cancel_vars, broker_vars, emit_vars,
                    botobj_vars, mbm_vars>>

\* everything but the multi-bot manager
beside_mbm == <<bridge_vars, assess_vars, upsert_vars, feed_vars,
                heartbeat, cancel_vars, broker_vars, emit_vars,
                botobj_vars, fillseq_vars>>

\* everything but the event listeners
beside_emit == <<bridge_vars, assess_vars, upsert_vars, feed_vars,
                 heartbeat, cancel_vars, broker_vars,
                   botobj_vars, fillseq_vars,
                   mbm_vars>>

vars == <<bridge_vars, side_vars>>

\* ---------------------------------------------------------------- helpers
Abs(x) == IF x < 0 THEN 0 - x ELSE x

Sign(x) == IF x < 0 THEN 0 - 1 ELSE IF x > 0 THEN 1 ELSE 0

\* the value of a present optional
Val(opt) == CHOOSE v \in opt : TRUE

\* Python's `x or y` on an optional number: None and 0 are falsy
OrElse(opt, dflt) == IF opt = {} \/ opt = {0} THEN dflt ELSE Val(opt)

RECURSIVE SumSeq(_)
SumSeq(s) == IF s = <<>> THEN 0 ELSE Head(s) + SumSeq(Tail(s))

RemoveAt(s, k) == [j \in 1..(Len(s) - 1) |-> IF j < k THEN s[j] ELSE s[j + 1]]

Count(s, x) == Cardinality({j \in 1..Len(s) : s[j] = x})

\* ----------------------------------------------------------- order factory
create_order(user_id, symbol, side, qty, price) ==
  [user_id |-> user_id, symbol |-> symbol, side |-> side, qty |-> qty,
   price |-> price, status |-> "new", executed_at |-> {},
   reject_reason |-> {}, broker_error |-> {}]

\* ------------------------------------------------------------- persistence
\* the row INSERT OR REPLACE writes: executed_at is int(executed_at or 0)
OrderRow(record) ==
  [user_id |-> record.user_id, symbol |-> record.symbol, side |-> record.side,
   qty |-> record.qty, price |-> record.price, status |-> record.status,
   executed_at |-> OrElse(record.executed_at, 0),
   reject_reason |-> record.reject_reason, broker_error |-> record.broker_error]

db_insert_order(table, id, record) ==
  [k \in (DOMAIN table) \cup {id} |-> IF k = id THEN OrderRow(record) ELSE table[k]]

\* SELECT ... WHERE user_id = ? AND symbol = ?, fetchone: the first such row
MatchingRows(table, user_id, symbol) ==
  {k \in 1..Len(table) : table[k].user_id = user_id /\ table[k].symbol = symbol}

Min(S) == CHOOSE x \in S : \A y \in S : x <= y

\* mutant: a row whose qty nets to zero is updated like any other, not deleted
M_db_upsert_position_keeps_zero_row(table, symbol, user_id, qty, avg_price) ==
  LET found == {k \in 1..Len(table) : table[k].user_id = user_id
                                       /\ table[k].symbol = symbol} IN
  IF found # {}
  THEN LET k == CHOOSE x \in found : \A y \in found : x <= y
       IN [table EXCEPT ![k] = [@ EXCEPT !.qty = @ + qty,
                                         !.cost = @ + avg_price * qty]]
  ELSE Append(table, [user_id |-> user_id, symbol |-> symbol, qty |-> qty,
                      cost |-> avg_price * qty])

\* mutant: the SELECT leaves out user_id, so a fill lands on the first row of
\* the symbol, whoever owns it
M_db_upsert_position_any_user(table, symbol, user_id, qty, avg_price) ==
  LET found == {k \in 1..Len(table) : table[k].symbol = symbol} IN
  IF found # {}
  THEN LET k == Min(found)
           new_qty == table[k].qty + qty
       IN IF new_qty = 0
          THEN RemoveAt(table, k)
          ELSE [table EXCEPT ![k] = [@ EXCEPT !.qty = new_qty,
                                              !.cost = @ + avg_price * qty]]
  ELSE Append(table, [user_id |-> user_id, symbol |-> symbol, qty |-> qty,
                      cost |-> avg_price * qty])

db_upsert_position(table, symbol, user_id, qty, avg_price) ==
  LET found == MatchingRows(table, user_id, symbol) IN
  IF found # {}
  THEN LET k == Min(found)
           new_qty == table[k].qty + qty
       IN IF new_qty = 0
          THEN RemoveAt(table, k)
          ELSE [table EXCEPT ![k] = [@ EXCEPT !.qty = new_qty,
                                              !.cost = @ + avg_price * qty]]
  ELSE Append(table, [user_id |-> user_id, symbol |-> symbol, qty |-> qty,
                      cost |-> avg_price * qty])

db_insert_audit(log, message) == [log EXCEPT ![message] = @ + 1]

_get_user_positions(table, user_id) ==
  SelectSeq(table, LAMBDA r : r.user_id = user_id)

\* ------------------------------------------------------------ risk manager
set_user_limits(l, max_exposure, max_positions, max_order_pct) ==
  [max_exposure |-> IF max_exposure # {} THEN Val(max_exposure) ELSE l.max_exposure,
   max_positions |-> IF max_positions # {} THEN Val(max_positions) ELSE l.max_positions,
   max_order_size_pct |-> IF max_order_pct # {} THEN Val(max_order_pct)
                          ELSE l.max_order_size_pct]

\* abs(qty) * avg_price of one row, avg_price = cost / qty
RowExposure(p) == Sign(p.qty) * p.cost

Exposure(current_positions) ==
  SumSeq([k \in 1..Len(current_positions) |-> RowExposure(current_positions[k])])

HeldSymbols(current_positions) ==
  {current_positions[k].symbol : k \in 1..Len(current_positions)}

\* mutant: the position count is tested for held symbols too
M_assess_order_count_held_too(order, current_positions, limits, market) ==
  LET price == OrElse(order.price, market)
      notional == Abs(order.qty) * price
      symbols == HeldSymbols(current_positions)
  IN IF notional <= 0
     THEN <<FALSE, "invalid_order_notional">>
     ELSE IF notional * 100 > limits.max_exposure * limits.max_order_size_pct
     THEN <<FALSE, "order_too_large_per_order_limit (>"
                   \o ToString((limits.max_exposure * limits.max_order_size_pct) \div 100)
                   \o ".0)">>
     ELSE IF Exposure(current_positions) + notional > limits.max_exposure
     THEN <<FALSE, "would_exceed_max_exposure">>
     ELSE IF Cardinality(symbols) >= limits.max_positions
     THEN <<FALSE, "max_positions_reached">>
     ELSE <<TRUE, "ok">>

\* market is what broker.get_market_price(symbol) returns when it is asked
assess_order(order, current_positions, limits, market) ==
  LET price == OrElse(order.price, market)
      notional == Abs(order.qty) * price
      symbols == HeldSymbols(current_positions)
  IN IF notional <= 0
     THEN <<FALSE, "invalid_order_notional">>
     ELSE IF notional * 100 > limits.max_exposure * limits.max_order_size_pct
     THEN <<FALSE, "order_too_large_per_order_limit (>"
                   \o ToString((limits.max_exposure * limits.max_order_size_pct) \div 100)
                   \o ".0)">>
     ELSE IF Exposure(current_positions) + notional > limits.max_exposure
     THEN <<FALSE, "would_exceed_max_exposure">>
     ELSE IF order.symbol \notin symbols /\ Cardinality(symbols) >= limits.max_positions
     THEN <<FALSE, "max_positions_reached">>
     ELSE <<TRUE, "ok">>

\* ------------------------------------------------------------- mock broker
\* random() - 0.5 lies in [-0.5, 0.5): a draw is the low or the high end
Draws == {0 - 1, 1}

\* 0.0005 * price * (random() - 0.5): between -price/4000 and +price/4000
BrokerSlippage(price, draw) == draw * (price \div 4000)

\* price * (1 + (random() - 0.5) * 0.001) - price: between -price/2000 and +price/2000
PaperSlippage(price, draw) == draw * (price \div 2000)

\* mutant: the buyer is charged before the balance is checked
M_execute_order_charges_first(order, bal, market, draw) ==
  LET price == IF order.price = {} THEN market ELSE Val(order.price)
      exec_price == price + BrokerSlippage(price, draw)
      cost == exec_price * order.qty
      charged == [bal EXCEPT ![order.user_id] =
                    IF order.side = "buy" THEN @ - cost ELSE @ + cost]
  IN IF order.side = "buy" /\ bal[order.user_id] < cost
     THEN [ok |-> FALSE, error |-> {"insufficient_funds"}, exec_price |-> {},
           balances |-> charged]
     ELSE [ok |-> TRUE, error |-> {}, exec_price |-> {exec_price},
           balances |-> charged]

\* MockBroker.execute_order for one market reading and one slippage draw
execute_order(order, bal, market, draw) ==
  LET price == IF order.price = {} THEN market ELSE Val(order.price)
      exec_price == price + BrokerSlippage(price, draw)
      cost == exec_price * order.qty
  IN IF order.side = "buy" /\ bal[order.user_id] < cost
     THEN [ok |-> FALSE, error |-> {"insufficient_funds"}, exec_price |-> {},
           balances |-> bal]
     ELSE [ok |-> TRUE, error |-> {}, exec_price |-> {exec_price},
           balances |-> [bal EXCEPT ![order.user_id] =
                            IF order.side = "buy" THEN @ - cost ELSE @ + cost]]

\* ----------------------------------------------------------------- results
NoResult == [ok |-> {}, reason |-> {}, exec_price |-> {}, paper |-> {}, status |-> {}]

Rejected(reason) == [NoResult EXCEPT !.ok = {FALSE}, !.reason = {reason}]

PaperFilled(exec_price) ==
  [NoResult EXCEPT !.ok = {TRUE}, !.exec_price = {exec_price}, !.paper = {TRUE}]

Queued == [NoResult EXCEPT !.ok = {TRUE}, !.status = {"queued"}]

IdleCaller == [pc |-> "idle", order |-> 0, exec_price |-> 0]

IdleWorker == [pc |-> "loop", entry |-> [id |-> 0, seq |-> 0], exec_price |-> 0]

\* the events of an order's processing
EventNames == {"order_filled", "order_failed"}

\* self._emit(event_name, {"order": order, ...}): one more call for the order
_emit(log, id, event_name) == [log EXCEPT ![id][event_name] = @ + 1]

AuditMessages == {"Order rejected by risk manager", "Paper trade executed",
                  "Broker execute failed", "Order executed",
                  "Order processing exception"}

\* -------------------------------------------------------------------- Init
BridgeInit ==
  /\ orders = <<>>
  /\ db_orders = <<>>
  /\ positions = <<>>
  /\ audit = [m \in AuditMessages |-> 0]
  /\ orders_queue = <<>>
  /\ stop = FALSE
  /\ worker = IdleWorker
  /\ shut = "idle"
  /\ callers = [c \in Callers |-> IdleCaller]
  /\ returned = [mode |-> "none", result |-> NoResult]
  /\ balances = [u \in Users |-> DEFAULT_BALANCE_USD]
  /\ user_limits = [u \in Users |->
                      [max_exposure |-> DEFAULT_MAX_EXPOSURE,
                       max_positions |-> DEFAULT_MAX_POSITIONS,
                       max_order_size_pct |-> DEFAULT_MAX_ORDER_SIZE_PCT]]
  /\ enq_log = <<>>
  /\ exec_log = <<>>
  /\ fills = [u \in Users |-> [y \in Symbols |-> 0]]
  /\ relimited = {}
  /\ n_calls = 0
  /\ emitted = [id \in 1..MaxOrders |-> [e \in EventNames |-> 0]]
  /\ at_stop = {}

\* no call outside the bridge's run
AssessIdle == assess_args = <<>> /\ assess_result = <<>>

UpsertIdle == up_args = <<>> /\ up_table = <<>> /\ up_step = 0

\* the registry and the market cache are empty, no tick is dispatched
NoIter == [pos |-> 0, used |-> 0, left |-> 0]

IdleTick == [pc |-> "idle", symbol |-> "", price |-> 0, outer |-> NoIter,
             user |-> "", inner |-> NoIter, bot |-> ""]

NoTickLog == [at_start |-> {}, removed |-> {}, changed_by |-> {},
              raised |-> {}, notified |-> [bot \in Bots |-> 0]]

FeedInit ==
  /\ bots_by_user = [users |-> <<>>, bots |-> [u \in Users |-> <<>>]]
  /\ market_cache = [y \in Symbols |-> {}]
  /\ tick = IdleTick
  /\ tick_log = NoTickLog
  /\ n_regs = 0
  /\ n_ticks = 0

\* the heartbeat thread is started by __init__ and is at its loop test
HeartbeatInit == heartbeat = "test"

\* the parts outside the bridge's order processing as __init__ leaves them
\* MockBroker.__init__: self.open_orders = {}
CancelInit == open_orders = {} /\ cancelled = {}

DefaultLimits == [max_exposure |-> DEFAULT_MAX_EXPOSURE,
                  max_positions |-> DEFAULT_MAX_POSITIONS,
                  max_order_size_pct |-> DEFAULT_MAX_ORDER_SIZE_PCT]

\* a broker with every user at the default balance, no call made
BrokerIdle ==
  /\ bk_balances = [u \in Users |-> DEFAULT_BALANCE_USD]
  /\ bk_limits = DefaultLimits
  /\ bk_last = <<>>
  /\ n_execs = 0

\* the event names listeners are registered for and events are emitted with
ListenedEvents == {"order_filled", "heartbeat"}

\* the callbacks that are registered
Callbacks == {"f", "g"}

NotEmitting == [pc |-> "idle", event_name |-> "", idx |-> 0, at_start |-> <<>>,
                called |-> <<>>, raised |-> {}]

\* self.event_listeners = defaultdict(list): no listener, no _emit running
EmitIdle ==
  /\ event_listeners = [e \in ListenedEvents |-> <<>>]
  /\ emitting = NotEmitting
  /\ n_ons = 0
  /\ n_emits = 0

\* the bot objects the callers construct: two objects made for the same
\* (user, bot_id) and one each for two other keys
BotObjects == 1..4

BotKey(obj) == IF obj <= 2 THEN <<"u1", "b1">>
               ELSE IF obj = 3 THEN <<"u1", "b2">> ELSE <<"u2", "b1">>

\* TradingBotBase.__init__ sets self.active = True; nothing is registered
BotObjInit ==
  /\ bot_active = [obj \in BotObjects |-> TRUE]
  /\ bot_registry = [key \in Bots |-> 0]
  /\ bot_log = [registered |-> {}, calls |-> 0]

\* an empty positions table, no fill applied
FillSeqInit == seq_table = <<>> /\ seq_prices = <<>>

\* MultiBotManager(max_bots=2): the limit the manager is built with
MbmMaxBots == 2

\* the bot ids a call can be about: those create_bot can give out within
\* the limit, and the one after
MbmIds == 1..(MbmMaxBots + 1)

NoCall == [op |-> "none", result |-> "none", bots_before |-> <<>>,
           tasks_before |-> <<>>]

\* MultiBotManager.__init__: no bot, no task
MbmInit ==
  /\ mbm_bots = [bot_id \in MbmIds |-> 0]
  /\ mbm_tasks = [bot_id \in MbmIds |-> 0]
  /\ mbm_objs = <<>>
  /\ mbm_loops = <<>>
  /\ mbm_call = [pc |-> "idle", last |-> NoCall]

MoreInit ==
  /\ HeartbeatInit
  /\ CancelInit
  /\ BrokerIdle
  /\ EmitIdle
  /\ BotObjInit
  /\ FillSeqInit
  /\ MbmInit

SideIdle == AssessIdle /\ UpsertIdle /\ FeedInit /\ MoreInit

\* callers build the orders of OrderChoices and the database works
Init ==
  /\ BridgeInit
  /\ env = [choices |-> OrderChoices, db_faults |-> FALSE]
  /\ SideIdle

\* ------------------------------------------------------------ submit_order
\* mutant: the rejection branch does not return, so a rejected live order
\* is queued as well
M_QueueAfterSubmit_rejected_is_queued(queue, allow, mode, entry) ==
  IF mode # "paper" THEN Append(queue, entry) ELSE queue

\* mutant: the paper branch does not return and falls through to the append
M_QueueAfterSubmit_paper_falls_through(queue, allow, mode, entry) ==
  IF allow THEN Append(queue, entry) ELSE queue

\* what submit_order leaves in orders_queue: the rejection and the paper branch
\* return before the append, only an allowed live order is queued
QueueAfterSubmit(queue, allow, mode, entry) ==
  IF allow /\ mode # "paper" THEN Append(queue, entry) ELSE queue

\* submit_order(order, mode) up to its return (rejection, live) or up to the
\* position upsert (paper).  all is the orders map with the order at id; m1 is
\* the market reading of the risk check, m2 and draw those of the paper fill.
SubmitOrder(c, id, all, mode, m1, m2, draw) ==
  LET order == all[id]
      current == _get_user_positions(positions, order.user_id)
      verdict == assess_order(order, current, user_limits[order.user_id], m1)
  IN /\ orders_queue' = QueueAfterSubmit(orders_queue, verdict[1], mode,
                                         [id |-> id, seq |-> Len(enq_log) + 1])
     /\ enq_log' = IF orders_queue' = orders_queue THEN enq_log ELSE Append(enq_log, id)
     /\ IF ~verdict[1]
        THEN LET rej == [order EXCEPT !.status = "rejected",
                                      !.reject_reason = {verdict[2]}]
             IN /\ audit' = db_insert_audit(audit, "Order rejected by risk manager")
                /\ orders' = [all EXCEPT ![id] = rej]
                /\ db_orders' = db_insert_order(db_orders, id, rej)
                /\ returned' = [mode |-> mode, result |-> Rejected(verdict[2])]
                /\ UNCHANGED callers
        ELSE IF mode = "paper"
        THEN LET price == OrElse(order.price, m2)
                 exec_price == price + PaperSlippage(price, draw)
                 fill == [order EXCEPT !.executed_at = {TimeNow}, !.status = "filled"]
             IN /\ orders' = [all EXCEPT ![id] = fill]
                /\ db_orders' = db_insert_order(db_insert_order(db_orders, id, order),
                                                id, fill)
                /\ callers' = [callers EXCEPT ![c] =
                     [pc |-> "upsert", order |-> id, exec_price |-> exec_price]]
                /\ UNCHANGED <<audit, returned>>
        ELSE /\ orders' = all
             /\ db_orders' = db_insert_order(db_orders, id, order)
             /\ returned' = [mode |-> mode, result |-> Queued]
             /\ UNCHANGED <<audit, callers>>

\* a call runs on the lowest free caller thread (the threads are alike)
FreeCaller(c) ==
  /\ callers[c].pc = "idle"
  /\ \A d \in Callers : d < c => callers[d].pc # "idle"

SubmitNew(c, o, mode, m1, m2, draw) ==
  /\ FreeCaller(c)
  /\ o \in env.choices
  /\ Len(orders) < MaxOrders
  /\ n_calls < MaxSubmits
  /\ SubmitOrder(c, Len(orders) + 1,
                 Append(orders, create_order(o.user_id, o.symbol, o.side, o.qty, o.price)),
                 mode, m1, m2, draw)
  /\ n_calls' = n_calls + 1
  /\ UNCHANGED <<positions, stop, worker, shut, balances, user_limits,
                 exec_log, fills, relimited, emitted, side_vars, env,
                 at_stop>>

\* a caller submits an order dict that was submitted before
Resubmit(c, id, mode, m1, m2, draw) ==
  /\ FreeCaller(c)
  /\ id \in 1..Len(orders)
  /\ n_calls < MaxSubmits
  /\ SubmitOrder(c, id, orders, mode, m1, m2, draw)
  /\ n_calls' = n_calls + 1
  /\ UNCHANGED <<positions, stop, worker, shut, balances, user_limits,
                 exec_log, fills, relimited, emitted, side_vars, env,
                 at_stop>>

SignedQty(order) == IF order.side = "buy" THEN order.qty ELSE 0 - order.qty

\* the rest of a paper submit_order: position upsert, audit, event, return
PaperUpsert(c) ==
  /\ callers[c].pc = "upsert"
  /\ LET order == orders[callers[c].order] IN
       positions' = db_upsert_position(positions, order.symbol, order.user_id,
                                       SignedQty(order), callers[c].exec_price)
  /\ LET order == orders[callers[c].order] IN
       fills' = [fills EXCEPT ![order.user_id][order.symbol] = @ + SignedQty(order)]
  /\ audit' = db_insert_audit(audit, "Paper trade executed")
  /\ emitted' = _emit(emitted, callers[c].order, "order_filled")
  /\ callers' = [callers EXCEPT ![c] = IdleCaller]
  /\ returned' = [mode |-> "paper", result |-> PaperFilled(callers[c].exec_price)]
  /\ UNCHANGED <<orders, db_orders, orders_queue, stop, worker, shut,
                 balances, user_limits, enq_log, exec_log, relimited,
                 n_calls, side_vars, env,
                 at_stop>>

\* ------------------------------------------------------------- worker loop
\* while not stop: if orders_queue: ... else: sleep(0.1)
WorkerLoop ==
  /\ worker.pc = "loop"
  /\ stop \/ orders_queue # <<>>
  /\ worker' = [worker EXCEPT !.pc = IF stop THEN "exited" ELSE "pop"]
  /\ UNCHANGED <<orders, db_orders, positions, audit, orders_queue, stop,
                 shut, callers, returned, balances, user_limits, enq_log,
                 exec_log, fills, relimited, n_calls, emitted, side_vars, env,
                 at_stop>>

\* mutant: pop() instead of popleft(), the entry at the right end
M_popleft_right_end(queue) == queue[Len(queue)]

\* deque.popleft() takes the entry at the left end
popleft(queue) == Head(queue)

\* order = orders_queue.popleft(); an IndexError is caught by the loop's except
WorkerPop ==
  /\ worker.pc = "pop"
  /\ IF orders_queue = <<>>
     THEN /\ worker' = [worker EXCEPT !.pc = "loop"]
          /\ UNCHANGED orders_queue
     ELSE /\ worker' = [worker EXCEPT !.pc = "execute", !.entry = popleft(orders_queue)]
          /\ orders_queue' = Tail(orders_queue)
  /\ UNCHANGED <<orders, db_orders, positions, audit, stop, shut, callers,
                 returned, balances, user_limits, enq_log, exec_log, fills,
                 relimited, n_calls, emitted, side_vars, env,
                 at_stop>>

\* what goes wrong while the worker processes an order, besides an
\* {ok: false} answer: the adapter's execute_order raises
\* (BrokerAdapterBase.execute_order does); the first persistence call after
\* a fill raises; or that call and the audit write of the except branch
\* both raise (the database is unavailable)
Faults == {"none", "broker_raises", "db_raises", "db_down"}

\* _process_order_worker up to the position upsert, for market reading m
\* and slippage draw of the mock broker.  An exception is caught by
\* `except Exception`, which writes an audit entry and emits order_failed;
\* an exception of that audit write is caught by _main_loop.
WorkerExecute(fault, m, draw) ==
  /\ worker.pc = "execute"
  /\ fault \in {"db_raises", "db_down"} => env.db_faults
  /\ LET id == worker.entry.id
         order == orders[id]
         res == execute_order(order, balances, m, draw)
     IN /\ exec_log' = Append(exec_log, worker.entry)
        /\ IF fault = "broker_raises"
           THEN /\ audit' = db_insert_audit(audit, "Order processing exception")
                /\ emitted' = _emit(emitted, id, "order_failed")
                /\ worker' = [worker EXCEPT !.pc = "loop"]
                /\ UNCHANGED <<orders, db_orders, balances>>
           ELSE /\ balances' = res.balances
                /\ IF ~res.ok
                   THEN LET failed == [order EXCEPT !.status = "failed",
                                                    !.broker_error = res.error]
                        IN /\ fault = "none"
                           /\ orders' = [orders EXCEPT ![id] = failed]
                           /\ db_orders' = db_insert_order(db_orders, id, failed)
                           /\ audit' = db_insert_audit(audit, "Broker execute failed")
                           /\ emitted' = _emit(emitted, id, "order_failed")
                           /\ worker' = [worker EXCEPT !.pc = "loop"]
                   ELSE LET fill == [order EXCEPT !.executed_at = {TimeNow},
                                                  !.status = "filled"]
                        IN /\ orders' = [orders EXCEPT ![id] = fill]
                           /\ IF fault = "none"
                              THEN /\ db_orders' = db_insert_order(db_orders, id, fill)
                                   /\ worker' = [worker EXCEPT
                                        !.pc = "upsert",
                                        !.exec_price = Val(res.exec_price)]
                                   /\ UNCHANGED <<audit, emitted>>
                              ELSE /\ worker' = [worker EXCEPT !.pc = "loop"]
                                   /\ audit' =
                                        IF fault = "db_raises"
                                        THEN db_insert_audit(audit, "Order processing exception")
                                        ELSE audit
                                   /\ emitted' =
                                        IF fault = "db_raises"
                                        THEN _emit(emitted, id, "order_failed")
                                        ELSE emitted
                                   /\ UNCHANGED db_orders
  /\ UNCHANGED <<positions, orders_queue, stop, shut, callers, returned,
                 user_limits, enq_log, fills, relimited, n_calls, side_vars, env,
                 at_stop>>

\* the rest of _process_order_worker: position upsert, audit, event
WorkerUpsert ==
  /\ worker.pc = "upsert"
  /\ LET order == orders[worker.entry.id] IN
       positions' = db_upsert_position(positions, order.symbol, order.user_id,
                                       SignedQty(order), worker.exec_price)
  /\ LET order == orders[worker.entry.id] IN
       fills' = [fills EXCEPT ![order.user_id][order.symbol] = @ + SignedQty(order)]
  /\ audit' = db_insert_audit(audit, "Order executed")
  /\ emitted' = _emit(emitted, worker.entry.id, "order_filled")
  /\ worker' = [worker EXCEPT !.pc = "loop"]
  /\ UNCHANGED <<orders, db_orders, orders_queue, stop, shut, callers,
                 returned, balances, user_limits, enq_log, exec_log,
                 relimited, n_calls, side_vars, env,
                 at_stop>>

\* ---------------------------------------------------------------- shutdown
\* self._stop.set(), then the first test of `while self.orders_queue`
ShutdownStop ==
  /\ shut = "idle"
  /\ stop' = TRUE
  /\ shut' = IF orders_queue # <<>> THEN "pop" ELSE "done"
  /\ at_stop' = {orders_queue[k] : k \in 1..Len(orders_queue)}
  /\ UNCHANGED <<orders, db_orders, positions, audit, orders_queue, worker,
                 callers, returned, balances, user_limits, enq_log, exec_log,
                 fills, relimited, n_calls, emitted, side_vars, env>>

\* order = self.orders_queue.popleft(): logged, not executed, then the next
\* loop test; an IndexError (the worker took the last order meanwhile)
\* leaves shutdown by exception
ShutdownPop ==
  /\ shut = "pop"
  /\ IF orders_queue = <<>>
     THEN /\ shut' = "raised"
          /\ UNCHANGED orders_queue
     ELSE /\ orders_queue' = Tail(orders_queue)
          /\ shut' = IF orders_queue' # <<>> THEN "pop" ELSE "done"
  /\ UNCHANGED <<orders, db_orders, positions, audit, stop, worker, callers,
                 returned, balances, user_limits, enq_log, exec_log, fills,
                 relimited, n_calls, emitted, side_vars, env,
                 at_stop>>

\* --------------------------------------------------------- risk.set_user_limits
SetUserLimits(a) ==
  /\ user_limits' = [user_limits EXCEPT ![a.user_id] =
       set_user_limits(@, a.max_exposure, a.max_positions, a.max_order_pct)]
  /\ user_limits' # user_limits
  /\ relimited' = IF \E id \in DOMAIN orders : orders[id].user_id = a.user_id
                  THEN relimited \cup {a.user_id} ELSE relimited
  /\ UNCHANGED <<orders, db_orders, positions, audit, orders_queue, stop,
                 worker, shut, callers, returned, balances, enq_log, exec_log,
                 fills, n_calls, emitted, side_vars, env,
                 at_stop>>

Next ==
  \/ \E c \in Callers, o \in OrderChoices \cup OddOrderChoices, mode \in Modes,
        m1 \in MarketPrices, m2 \in MarketPrices, draw \in Draws :
       SubmitNew(c, o, mode, m1, m2, draw)
  \/ \E c \in Callers, id \in 1..MaxOrders, mode \in Modes,
        m1 \in MarketPrices, m2 \in MarketPrices, draw \in Draws :
       Resubmit(c, id, mode, m1, m2, draw)
  \/ \E c \in Callers : PaperUpsert(c)
  \/ WorkerLoop
  \/ WorkerPop
  \/ \E fault \in Faults, m \in MarketPrices, draw \in Draws :
       WorkerExecute(fault, m, draw)
  \/ WorkerUpsert
  \/ ShutdownStop
  \/ ShutdownPop
  \/ \E a \in LimitCalls : SetUserLimits(a)

Spec == Init /\ [][Next]_vars

\* the bridge with a database whose writes may raise in the worker
DbFaultInit ==
  /\ BridgeInit
  /\ env = [choices |-> OrderChoices, db_faults |-> TRUE]
  /\ SideIdle

DbFaultSpec == DbFaultInit /\ [][Next]_vars

\* the bridge with callers that build those orders
OddOrderInit ==
  /\ BridgeInit
  /\ env = [choices |-> OddOrderChoices, db_faults |-> FALSE]
  /\ SideIdle

OddOrderSpec == OddOrderInit /\ [][Next]_vars

\* the worker is a thread of its own that the scheduler keeps running
WorkerFairness ==
  /\ WF_vars(WorkerLoop)
  /\ WF_vars(WorkerPop)
  /\ WF_vars(\E fault \in Faults, m \in MarketPrices, draw \in Draws :
               WorkerExecute(fault, m, draw))
  /\ WF_vars(WorkerUpsert)

FairSpec == Init /\ [][Next]_vars /\ WorkerFairness

\* ------------------------------------------------- MockBroker.cancel_order
\* mutant: cancelling also takes the order out of the bridge's queue
M_QueueAfterCancel_removes_entries(queue, order_id) ==
  SelectSeq(queue, LAMBDA e : e.id # order_id)

\* cancel_order knows the broker's open_orders only: the bridge's queue is
\* not among the things it can reach
QueueAfterCancel(queue, order_id) == queue

\* if order_id in self.open_orders: pop it, return True; else return False
cancel_order(open, order_id) ==
  [open_orders |-> open \ {order_id}, result |-> order_id \in open]

InQueue(id) == \E k \in 1..Len(orders_queue) : orders_queue[k].id = id

\* broker.cancel_order(order_id), called by any thread
CancelOrder(order_id) ==
  /\ Cardinality(cancelled) < MaxCancels
  /\ open_orders' = cancel_order(open_orders, order_id).open_orders
  /\ orders_queue' = QueueAfterCancel(orders_queue, order_id)
  /\ cancelled' = cancelled \cup {[id |-> order_id, waiting |-> InQueue(order_id)]}
  /\ cancelled' # cancelled
  /\ UNCHANGED <<orders, db_orders, positions, audit, stop, worker, shut,
                 callers, returned, balances, user_limits, enq_log, exec_log,
                 fills, relimited, n_calls, emitted, env, at_stop>>
  /\ UNCHANGED <<assess_vars, upsert_vars, feed_vars, heartbeat, broker_vars,
                 emit_vars, botobj_vars, fillseq_vars,
                   mbm_vars>>

\* the bridge with threads that call the broker's cancel_order
CancelNext == Next \/ \E order_id \in 1..MaxOrders : CancelOrder(order_id)

CancelSpec == Init /\ [][CancelNext]_vars

\* ------------------------------------------ MockBroker.execute_order on its own
\* the orders given to the broker: buys and sells of one user, of a negative
\* and of positive qty, at the market and at limit prices of 0, of more
\* than half and of more than the whole default balance
BrokerQtys == {0 - 1, 1, 2}

BrokerPrices == {{}, {0}, {60000}, {120000}}

BrokerOrders ==
  { create_order("u1", "BTCUSD", side, qty, price) :
      side \in Sides, qty \in BrokerQtys, price \in BrokerPrices }

\* the limits the user has: the defaults, or limits set with
\* set_user_limits that admit an order of the whole balance and more
BrokerLimits ==
  { DefaultLimits,
    [max_exposure |-> 400000, max_positions |-> DEFAULT_MAX_POSITIONS,
     max_order_size_pct |-> 100] }

BrokerInit ==
  /\ BridgeInit
  /\ env = [choices |-> OrderChoices, db_faults |-> FALSE]
  /\ AssessIdle
  /\ UpsertIdle
  /\ FeedInit
  /\ HeartbeatInit
  /\ CancelInit
  /\ EmitIdle
  /\ BotObjInit
  /\ FillSeqInit
  /\ MbmInit
  /\ bk_balances = [u \in Users |-> DEFAULT_BALANCE_USD]
  /\ bk_limits \in BrokerLimits
  /\ bk_last = <<>>
  /\ n_execs = 0

\* res = self.broker.execute_order(order) for an order that assess_order
\* allowed (for a user without positions), at market reading m
BrokerExecute(order, m, draw) ==
  /\ n_execs < MaxExecs
  /\ assess_order(order, <<>>, bk_limits, m)[1]
  /\ LET res == execute_order(order, bk_balances, m, draw) IN
       /\ bk_balances' = res.balances
       /\ bk_last' = [order |-> order, market |-> m, draw |-> draw,
                      before |-> bk_balances, result |-> res]
  /\ n_execs' = n_execs + 1
  /\ UNCHANGED <<beside_broker, bk_limits>>

BrokerNext ==
  \E order \in BrokerOrders, m \in MarketPrices, draw \in Draws :
    BrokerExecute(order, m, draw)

BrokerSpec == BrokerInit /\ [][BrokerNext]_vars

\* ------------------------------------------------------------ on and _emit
\* self.event_listeners[event_name].append(cb), by another thread or by
\* the listener that is being called
On(event_name, cb, by) ==
  /\ n_ons < MaxOns
  /\ by = "handler" => emitting.pc = "call"
  /\ event_listeners' = [event_listeners EXCEPT ![event_name] = Append(@, cb)]
  /\ n_ons' = n_ons + 1
  /\ UNCHANGED <<beside_emit, emitting, n_emits>>

\* self.event_listeners.get(event_name, []): the list of that event itself
ListenersOf(listeners, event_name) == listeners[event_name]

\* _emit(event_name, payload) up to the start of the for loop
EmitStart(event_name) ==
  /\ emitting.pc \in {"idle", "returned", "raised"}
  /\ n_emits < MaxEmits
  /\ emitting' = [NotEmitting EXCEPT
       !.pc = "next", !.event_name = event_name, !.idx = 1,
       !.at_start = ListenersOf(event_listeners, event_name)]
  /\ n_emits' = n_emits + 1
  /\ UNCHANGED <<beside_emit, event_listeners, n_ons>>

\* the list the for loop runs over: the event's own list, which on() may
\* extend meanwhile, or, for an event that had no entry in the dict, the
\* default [] of get(), which nothing extends
IteratedList ==
  IF emitting.at_start = <<>> THEN <<>>
  ELSE ListenersOf(event_listeners, emitting.event_name)

\* for cb in <list>: a list iterator produces the entry at its index as long
\* as the list, as it is now, has one
EmitNext ==
  /\ emitting.pc = "next"
  /\ emitting' = IF emitting.idx <= Len(IteratedList)
                  THEN [emitting EXCEPT !.pc = "call"]
                  ELSE [emitting EXCEPT !.pc = "returned"]
  /\ UNCHANGED <<beside_emit, event_listeners, n_ons, n_emits>>

\* mutant: no try/except around cb(payload)
M_AfterListener_no_except(raises) == IF raises THEN "raised" ELSE "next"

\* try: cb(payload) / except Exception: logged, the loop goes on
AfterListener(raises) == "next"

\* cb(payload), which returns or raises
EmitCall(raises) ==
  /\ emitting.pc = "call"
  /\ emitting' = [emitting EXCEPT
       !.pc = AfterListener(raises),
       !.idx = @ + 1,
       !.called = Append(@, IteratedList[emitting.idx]),
       !.raised = IF raises THEN @ \cup {emitting.idx} ELSE @]
  /\ UNCHANGED <<beside_emit, event_listeners, n_ons, n_emits>>

EmitNextAll ==
  \/ \E e \in ListenedEvents, cb \in Callbacks, by \in RegistryCallers : On(e, cb, by)
  \/ \E e \in ListenedEvents : EmitStart(e)
  \/ EmitNext
  \/ \E raises \in BOOLEAN : EmitCall(raises)

EmitSpec == Init /\ [][EmitNextAll]_vars

\* ----------------------------------------------- bot objects in the registry
\* TradingBotBase.start(): logs, and leaves self.active as it is
start(active) == active

\* TradingBotBase.stop(): self.active = False
stop_bot(active) == FALSE

\* register_bot(bot): the entry of (bot.user_id, bot.bot_id) is set to the
\* bot, whatever it held, then bot.start()
RegisterObject(obj) ==
  /\ bot_log.calls < MaxBotCalls
  /\ bot_registry' = [bot_registry EXCEPT ![BotKey(obj)] = obj]
  /\ bot_active' = [bot_active EXCEPT ![obj] = start(@)]
  /\ bot_log' = [registered |-> bot_log.registered \cup {obj},
                  calls |-> bot_log.calls + 1]
  /\ UNCHANGED beside_botobj

\* unregister_bot(user_id, bot_id): pop the entry; if there was a bot,
\* bot.stop()
UnregisterKey(key) ==
  /\ bot_log.calls < MaxBotCalls
  /\ bot_registry' = [bot_registry EXCEPT ![key] = 0]
  /\ bot_active' = IF bot_registry[key] # 0
                    THEN [bot_active EXCEPT ![bot_registry[key]] = stop_bot(@)]
                    ELSE bot_active
  /\ bot_log' = [bot_log EXCEPT !.calls = @ + 1]
  /\ UNCHANGED beside_botobj

BotObjNext ==
  \/ \E obj \in BotObjects : RegisterObject(obj)
  \/ \E key \in Bots : UnregisterKey(key)

BotObjSpec == Init /\ [][BotObjNext]_vars

\* ------------------------------------------ a sequence of fills of one pair
\* the signed quantities (a sell is negative) and execution prices of the
\* fills of (u1, BTCUSD)
FillQtys == {0 - 2, 0 - 1, 1, 2}

FillPrices == {100, 150, 250}

\* db_upsert_position(symbol, user_id, qty or -qty, exec_price) of one fill
Fill(qty, price) ==
  /\ Len(seq_prices) < MaxFills
  /\ seq_table' = db_upsert_position(seq_table, "BTCUSD", "u1", qty, price)
  /\ seq_prices' = Append(seq_prices, price)
  /\ UNCHANGED beside_fillseq

FillSeqNext == \E qty \in FillQtys, price \in FillPrices : Fill(qty, price)

FillSeqSpec == Init /\ [][FillSeqNext]_vars

\* ------------------------------------------- multi_bot_manager.py
\* len(self.bots)
LenBots(bots) == Cardinality({bot_id \in DOMAIN bots : bots[bot_id] # 0})

\* mutant: create_bot without the limit test
M_AtLimit_never(bots, max_bots) == FALSE

\* if len(self.bots) >= self.max_bots
AtLimit(bots, max_bots) == LenBots(bots) >= max_bots

\* bot_id = len(self.bots) + 1
NextBotId(bots) == LenBots(bots) + 1

\* TradingBot.__init__: active = False, balance as constructed
NewTradingBot == [active |-> FALSE, profits |-> 0]

\* the manager's methods are called one after the other by one coroutine
MbmIdle == mbm_call.pc = "idle"

Called(op, result) ==
  [op |-> op, result |-> result, bots_before |-> mbm_bots,
   tasks_before |-> mbm_tasks]

\* create_bot(strategy): the limit message, or a new TradingBot stored at
\* bots[bot_id] and "Bot #bot_id ready."
CreateBot ==
  /\ MbmIdle
  /\ IF AtLimit(mbm_bots, MbmMaxBots)
     THEN /\ mbm_call.last # Called("create_bot", "limit")
          /\ mbm_call' = [mbm_call EXCEPT !.last = Called("create_bot", "limit")]
          /\ UNCHANGED <<mbm_bots, mbm_objs>>
     ELSE /\ Len(mbm_objs) < MaxCreates
          /\ NextBotId(mbm_bots) \in DOMAIN mbm_bots
          /\ mbm_objs' = Append(mbm_objs, NewTradingBot)
          /\ mbm_bots' = [mbm_bots EXCEPT ![NextBotId(mbm_bots)] = Len(mbm_objs) + 1]
          /\ mbm_call' = [mbm_call EXCEPT !.last = Called("create_bot", "ready")]
  /\ UNCHANGED <<beside_mbm, mbm_tasks, mbm_loops>>

\* remove_bot(bot_id): not found, or stop() the bot, pop it from bots and
\* pop its task from tasks; the task is not cancelled
RemoveBot(bot_id) ==
  /\ MbmIdle
  /\ IF mbm_bots[bot_id] = 0
     THEN /\ mbm_call.last # Called("remove_bot", "not_found")
          /\ mbm_call' = [mbm_call EXCEPT !.last = Called("remove_bot", "not_found")]
          /\ UNCHANGED <<mbm_bots, mbm_tasks, mbm_objs>>
     ELSE /\ mbm_objs' = [mbm_objs EXCEPT ![mbm_bots[bot_id]].active = FALSE]
          /\ mbm_bots' = [mbm_bots EXCEPT ![bot_id] = 0]
          /\ mbm_tasks' = [mbm_tasks EXCEPT ![bot_id] = 0]
          /\ mbm_call' = [mbm_call EXCEPT !.last = Called("remove_bot", "removed")]
  /\ UNCHANGED <<beside_mbm, mbm_loops>>

\* the bots start_all makes a task for: those in bots that are not active
ToStart(bots, objs) ==
  {bot_id \in DOMAIN bots : bots[bot_id] # 0 /\ ~ objs[bots[bot_id]].active}

\* the rank of a bot_id among the ids a task is made for
Rank(ids, bot_id) == Cardinality({j \in ids : j <= bot_id})

\* start_all(): for every bot that is not active,
\* self.tasks[bot_id] = asyncio.create_task(bot.run()); the coroutine has no
\* await, so no task runs before it returns
StartAll ==
  /\ MbmIdle
  /\ LET ids == ToStart(mbm_bots, mbm_objs)
         n == Len(mbm_loops)
     IN /\ n + Cardinality(ids) <= MaxLoops
        /\ mbm_loops' =
             [t \in 1..(n + Cardinality(ids)) |->
                IF t <= n THEN mbm_loops[t]
                ELSE [obj |-> mbm_bots[CHOOSE j \in ids : Rank(ids, j) = t - n],
                      at |-> "new"]]
        /\ mbm_tasks' = [bot_id \in DOMAIN mbm_tasks |->
                           IF bot_id \in ids THEN n + Rank(ids, bot_id)
                           ELSE mbm_tasks[bot_id]]
  /\ mbm_call' = [mbm_call EXCEPT !.last = Called("start_all", "none")]
  /\ mbm_call' # mbm_call \/ mbm_loops' # mbm_loops
  /\ UNCHANGED <<beside_mbm, mbm_bots, mbm_objs>>

\* task.cancel(): a task that has not started never runs its coroutine, a
\* sleeping task gets CancelledError at its await, a finished task is
\* left as it is
cancel(at) == IF at = "new" THEN "done"
              ELSE IF at = "sleeping" THEN "cancelling" ELSE at

\* stop_all() up to its await: bot.stop() for every bot in bots,
\* task.cancel() for every task in tasks, tasks.clear()
StopAllBegin ==
  /\ MbmIdle
  /\ mbm_objs' = [obj \in 1..Len(mbm_objs) |->
                    IF \E bot_id \in DOMAIN mbm_bots : mbm_bots[bot_id] = obj
                    THEN [mbm_objs[obj] EXCEPT !.active = FALSE]
                    ELSE mbm_objs[obj]]
  /\ mbm_loops' = [t \in 1..Len(mbm_loops) |->
                     IF \E bot_id \in DOMAIN mbm_tasks : mbm_tasks[bot_id] = t
                     THEN [mbm_loops[t] EXCEPT !.at = cancel(@)]
                     ELSE mbm_loops[t]]
  /\ mbm_tasks' = [bot_id \in DOMAIN mbm_tasks |-> 0]
  /\ mbm_call' = [pc |-> "stop_all", last |-> Called("stop_all", "none")]
  /\ UNCHANGED <<beside_mbm, mbm_bots>>

\* a task that the event loop runs before a timer of one second or more
\* expires: it is new, or its cancellation is pending
Ready(t) == mbm_loops[t].at \in {"new", "cancelling"}

\* await asyncio.sleep(1) of stop_all is over: the event loop has run
\* every ready task by then
StopAllReturn ==
  /\ mbm_call.pc = "stop_all"
  /\ \A t \in 1..Len(mbm_loops) : ~ Ready(t)
  /\ mbm_call' = [mbm_call EXCEPT !.pc = "idle"]
  /\ UNCHANGED <<beside_mbm, mbm_bots, mbm_tasks, mbm_objs, mbm_loops>>

\* TradingBot.run() up to its first await: self.active = True, then
\* `while self.active` and asyncio.sleep
LoopStart(t) ==
  /\ t \in 1..Len(mbm_loops)
  /\ mbm_loops[t].at = "new"
  /\ mbm_objs' = [mbm_objs EXCEPT ![mbm_loops[t].obj].active = TRUE]
  /\ mbm_loops' = [mbm_loops EXCEPT ![t].at = "sleeping"]
  /\ UNCHANGED <<beside_mbm, mbm_bots, mbm_tasks, mbm_call>>

Profits(objs) == SumSeq([obj \in 1..Len(objs) |-> objs[obj].profits])

\* the sleep is over: self.balance += profit, then `while self.active`
\* again: the next sleep, or the end of run()
LoopWake(t) ==
  /\ t \in 1..Len(mbm_loops)
  /\ mbm_loops[t].at = "sleeping"
  /\ Profits(mbm_objs) < MaxProfits
  /\ mbm_objs' = [mbm_objs EXCEPT ![mbm_loops[t].obj].profits = @ + 1]
  /\ mbm_loops' = [mbm_loops EXCEPT ![t].at =
                     IF mbm_objs[mbm_loops[t].obj].active THEN "sleeping" ELSE "done"]
  /\ UNCHANGED <<beside_mbm, mbm_bots, mbm_tasks, mbm_call>>

\* except asyncio.CancelledError: self.active = False, run() ends
LoopCancelled(t) ==
  /\ t \in 1..Len(mbm_loops)
  /\ mbm_loops[t].at = "cancelling"
  /\ mbm_objs' = [mbm_objs EXCEPT ![mbm_loops[t].obj].active = FALSE]
  /\ mbm_loops' = [mbm_loops EXCEPT ![t].at = "done"]
  /\ UNCHANGED <<beside_mbm, mbm_bots, mbm_tasks, mbm_call>>

MbmNext ==
  \/ CreateBot
  \/ \E bot_id \in MbmIds : RemoveBot(bot_id)
  \/ StartAll
  \/ StopAllBegin
  \/ StopAllReturn
  \/ \E t \in 1..MaxLoops : LoopStart(t)
  \/ \E t \in 1..MaxLoops : LoopWake(t)
  \/ \E t \in 1..MaxLoops : LoopCancelled(t)

MbmSpec == Init /\ [][MbmNext]_vars

\* ---------------------------------------------------------- heartbeat loop
\* mutant: the loop is `while True`
M_HeartbeatAfterTest_ignores_stop(stopped) == "emit"

\* while not self._stop.is_set()
HeartbeatAfterTest(stopped) == IF stopped THEN "exited" ELSE "emit"

HeartbeatTest ==
  /\ heartbeat = "test"
  /\ heartbeat' = HeartbeatAfterTest(stop)
  /\ UNCHANGED beside_heartbeat

\* self._emit("heartbeat", ...) inside try/except, then
\* time.sleep(HEARTBEAT_INTERVAL); an exception of either is caught and
\* followed by time.sleep(1); the listeners and the sleep return
HeartbeatEmit ==
  /\ heartbeat = "emit"
  /\ heartbeat' = "test"
  /\ UNCHANGED beside_heartbeat

\* the bridge with both background threads
LoopsNext == Next \/ HeartbeatTest \/ HeartbeatEmit

\* both threads are threads of their own that the scheduler keeps running
LoopsFairness ==
  /\ WorkerFairness
  /\ WF_vars(HeartbeatTest)
  /\ WF_vars(HeartbeatEmit)

LoopsSpec == Init /\ [][LoopsNext]_vars /\ LoopsFairness

\* ------------------------------------------------- assess_order on its own
\* the arguments of RiskManager.assess_order: orders of every sign of qty,
\* market orders and limit orders with a zero, a negative and two positive
\* prices; position lists with a long row, a short row and two rows; limits
\* around the notionals; a broker that quotes 150 and one that quotes 0
AssessQtys == {0 - 1, 0, 1, 2}

AssessPrices == {{}, {0}, {0 - 100}, {100}, {200}}

AssessMarkets == {0, 150}

AssessPositions ==
  { <<>>,
    <<[user_id |-> "u1", symbol |-> "BTCUSD", qty |-> 1, cost |-> 100]>>,
    <<[user_id |-> "u1", symbol |-> "BTCUSD", qty |-> 0 - 1, cost |-> 0 - 100]>>,
    <<[user_id |-> "u1", symbol |-> "BTCUSD", qty |-> 1, cost |-> 100],
      [user_id |-> "u1", symbol |-> "ETHUSD", qty |-> 1, cost |-> 100]>> }

AssessLimits ==
  { [max_exposure |-> e, max_positions |-> n, max_order_size_pct |-> pct] :
      e \in {200, 400}, n \in {1, 2}, pct \in {50, 100} }

AssessInit ==
  /\ BridgeInit
  /\ env = [choices |-> OrderChoices, db_faults |-> FALSE]
  /\ assess_args \in
       { [order |-> create_order("u1", y, side, qty, price),
          current_positions |-> current, limits |-> l, market |-> m] :
           y \in Symbols, side \in Sides, qty \in AssessQtys,
           price \in AssessPrices, current \in AssessPositions,
           l \in AssessLimits, m \in AssessMarkets }
  /\ assess_result = <<>>
  /\ UpsertIdle
  /\ FeedInit
  /\ MoreInit

\* allow, reason = self.risk.assess_order(order, positions, self.broker)
Assess ==
  /\ assess_result = <<>>
  /\ assess_result' = assess_order(assess_args.order, assess_args.current_positions,
                                   assess_args.limits, assess_args.market)
  /\ UNCHANGED <<bridge_vars, more_vars, assess_args, upsert_vars, feed_vars>>

AssessNext == Assess

AssessSpec == AssessInit /\ [][AssessNext]_vars

\* ------------------------------------------- db_upsert_position on its own
\* rows a positions table can hold: long and short, of both users
UpsertRows ==
  { [user_id |-> u, symbol |-> y, qty |-> q, cost |-> q * 100] :
      u \in Users, y \in Symbols, q \in {0 - 1, 1, 2} }

\* the tables of at most two rows; the code's tables never hold two rows
\* of one (user, symbol)
UpsertTables ==
  {<<>>} \cup {<<r>> : r \in UpsertRows}
         \cup {t \in UpsertRows \X UpsertRows :
                 t[1].user_id # t[2].user_id \/ t[1].symbol # t[2].symbol}

UpsertFills ==
  { [user_id |-> u, symbol |-> y, qty |-> q, price |-> price] :
      u \in Users, y \in Symbols, q \in {1, 2, 3}, price \in {100, 150} }

UpsertInit ==
  /\ BridgeInit
  /\ env = [choices |-> OrderChoices, db_faults |-> FALSE]
  /\ AssessIdle
  /\ FeedInit
  /\ MoreInit
  /\ up_table \in UpsertTables
  /\ up_args \in {[fill |-> f, before |-> up_table] : f \in UpsertFills}
  /\ up_step = 0

\* db_upsert_position(symbol, user_id, qty, exec_price) of a buy fill
UpsertBuy ==
  /\ up_step = 0
  /\ up_table' = db_upsert_position(up_table, up_args.fill.symbol, up_args.fill.user_id,
                                    up_args.fill.qty, up_args.fill.price)
  /\ up_step' = 1
  /\ UNCHANGED <<bridge_vars, more_vars, assess_vars, up_args, feed_vars>>

\* db_upsert_position(symbol, user_id, -qty, exec_price) of the sell fill
UpsertSell ==
  /\ up_step = 1
  /\ up_table' = db_upsert_position(up_table, up_args.fill.symbol, up_args.fill.user_id,
                                    0 - up_args.fill.qty, up_args.fill.price)
  /\ up_step' = 2
  /\ UNCHANGED <<bridge_vars, more_vars, assess_vars, up_args, feed_vars>>

UpsertNext == UpsertBuy \/ UpsertSell

UpsertSpec == UpsertInit /\ [][UpsertNext]_vars

\* --------------------------------------------- bot registry and tick feed
\* the entries of a dict that hold a value, and their number (len(d))
LiveSlots(slots) == {k \in 1..Len(slots) : slots[k] # ""}

Used(slots) == Cardinality(LiveSlots(slots))

IsRegistered(registry, user_id, bot_id) ==
  \E k \in 1..Len(registry.bots[user_id]) : registry.bots[user_id][k] = bot_id

RegisteredBots(registry) ==
  {bot \in Bots : IsRegistered(registry, bot[1], bot[2])}

\* self.bots_by_user[bot.user_id][bot.bot_id] = bot: the defaultdict adds the
\* user's inner dict on first use; a new bot_id is a new entry of it
register_bot(registry, user_id, bot_id) ==
  IF IsRegistered(registry, user_id, bot_id) THEN registry
  ELSE [users |-> IF \E k \in 1..Len(registry.users) : registry.users[k] = user_id
                  THEN registry.users ELSE Append(registry.users, user_id),
        bots |-> [registry.bots EXCEPT ![user_id] = Append(@, bot_id)]]

\* self.bots_by_user.get(user_id, {}).pop(bot_id, None)
unregister_bot(registry, user_id, bot_id) ==
  [users |-> registry.users,
   bots |-> [registry.bots EXCEPT ![user_id] =
               [k \in 1..Len(@) |-> IF @[k] = bot_id THEN "" ELSE @[k]]]]

\* the iterator `for ... in d.values()` makes: it remembers len(d)
NewIter(slots) == [pos |-> 1, used |-> Used(slots), left |-> Used(slots)]

\* one step of that iterator over the dict as it is now: RuntimeError when
\* len(d) differs from the remembered one; otherwise the next entry that
\* holds a value, which is unexpected when as many entries as the dict had
\* were already produced; StopIteration when there is none
dictiter_next(slots, it) ==
  LET ahead == {k \in LiveSlots(slots) : k >= it.pos} IN
  IF Used(slots) # it.used THEN [kind |-> "size_changed", at |-> 0]
  ELSE IF ahead = {} THEN [kind |-> "stop", at |-> 0]
  ELSE IF it.left = 0 THEN [kind |-> "unexpected", at |-> Min(ahead)]
  ELSE [kind |-> "item", at |-> Min(ahead)]

Advance(it, at) == [it EXCEPT !.pos = at + 1,
                              !.left = IF @ > 0 THEN @ - 1 ELSE 0]

TickRunning == tick.pc \in {"outer", "inner", "handler"}

\* the registry changes made while a tick is dispatched
LogRegistryChange(by, gone) ==
  IF TickRunning
  THEN [tick_log EXCEPT !.changed_by = @ \cup {by}, !.removed = @ \cup gone]
  ELSE tick_log

\* register_bot(bot) for a bot that is not registered
RegisterBot(user_id, bot_id, by) ==
  /\ n_regs < MaxRegistryOps
  /\ by = "handler" => tick.pc = "handler"
  /\ ~ IsRegistered(bots_by_user, user_id, bot_id)
  /\ bots_by_user' = register_bot(bots_by_user, user_id, bot_id)
  /\ tick_log' = LogRegistryChange(by, {})
  /\ n_regs' = n_regs + 1
  /\ UNCHANGED <<bridge_vars, more_vars, assess_vars, upsert_vars, market_cache, tick,
                 n_ticks>>

\* unregister_bot(user_id, bot_id) for a registered bot
UnregisterBot(user_id, bot_id, by) ==
  /\ n_regs < MaxRegistryOps
  /\ by = "handler" => tick.pc = "handler"
  /\ IsRegistered(bots_by_user, user_id, bot_id)
  /\ bots_by_user' = unregister_bot(bots_by_user, user_id, bot_id)
  /\ tick_log' = LogRegistryChange(by, {<<user_id, bot_id>>})
  /\ n_regs' = n_regs + 1
  /\ UNCHANGED <<bridge_vars, more_vars, assess_vars, upsert_vars, market_cache, tick,
                 n_ticks>>

\* update_market_price(symbol, price) up to the outer `for`: the cache is
\* written, then the iterator over bots_by_user.values() is made
TickStart(symbol, price) ==
  /\ tick.pc \in {"idle", "returned", "raised"}
  /\ n_ticks < MaxTicks
  /\ market_cache' = [market_cache EXCEPT ![symbol] = {price}]
  /\ tick' = [IdleTick EXCEPT !.pc = "outer", !.symbol = symbol, !.price = price,
                              !.outer = NewIter(bots_by_user.users)]
  /\ tick_log' = [NoTickLog EXCEPT !.at_start = RegisteredBots(bots_by_user)]
  /\ n_ticks' = n_ticks + 1
  /\ UNCHANGED <<bridge_vars, more_vars, assess_vars, upsert_vars, bots_by_user, n_regs>>

\* for user_bots in self.bots_by_user.values(): the next inner dict and the
\* iterator over its values; a RuntimeError leaves update_market_price
TickOuterNext ==
  /\ tick.pc = "outer"
  /\ LET r == dictiter_next(bots_by_user.users, tick.outer) IN
       tick' = IF r.kind \in {"size_changed", "unexpected"}
               THEN [tick EXCEPT !.pc = "raised"]
               ELSE IF r.kind = "stop"
               THEN [tick EXCEPT !.pc = "returned"]
               ELSE [tick EXCEPT
                       !.pc = "inner",
                       !.outer = Advance(@, r.at),
                       !.user = bots_by_user.users[r.at],
                       !.inner = NewIter(bots_by_user.bots[bots_by_user.users[r.at]])]
  /\ UNCHANGED <<bridge_vars, more_vars, assess_vars, upsert_vars, bots_by_user,
                 market_cache, tick_log, n_regs, n_ticks>>

\* for bot in user_bots.values(): the next bot.  An entry found after all
\* expected ones were produced raises RuntimeError where the interpreter
\* checks for it (strict) and is produced where it does not.
TickInnerNext(strict) ==
  /\ tick.pc = "inner"
  /\ LET slots == bots_by_user.bots[tick.user]
         r == dictiter_next(slots, tick.inner)
     IN tick' = IF r.kind = "size_changed" \/ (r.kind = "unexpected" /\ strict)
                THEN [tick EXCEPT !.pc = "raised"]
                ELSE IF r.kind = "stop"
                THEN [tick EXCEPT !.pc = "outer"]
                ELSE [tick EXCEPT !.pc = "handler",
                                  !.inner = Advance(@, r.at),
                                  !.bot = slots[r.at]]
  /\ UNCHANGED <<bridge_vars, more_vars, assess_vars, upsert_vars, bots_by_user,
                 market_cache, tick_log, n_regs, n_ticks>>

\* mutant: no try/except around bot.handle_market_tick(tick)
M_AfterHandler_no_except(raises) == IF raises THEN "raised" ELSE "inner"

\* try: bot.handle_market_tick(tick) / except Exception: the handler's
\* exception is logged and the inner loop goes on
AfterHandler(raises) == "inner"

\* bot.handle_market_tick(tick), which returns or raises
TickHandler(raises) ==
  /\ tick.pc = "handler"
  /\ tick' = [tick EXCEPT !.pc = AfterHandler(raises)]
  /\ tick_log' = [tick_log EXCEPT
       !.notified[<<tick.user, tick.bot>>] = @ + 1,
       !.raised = IF raises THEN @ \cup {<<tick.user, tick.bot>>} ELSE @]
  /\ UNCHANGED <<bridge_vars, more_vars, assess_vars, upsert_vars, bots_by_user,
                 market_cache, n_regs, n_ticks>>

FeedNext ==
  \/ \E bot \in Bots, by \in RegistryCallers : RegisterBot(bot[1], bot[2], by)
  \/ \E bot \in Bots, by \in RegistryCallers : UnregisterBot(bot[1], bot[2], by)
  \/ \E y \in Symbols, price \in TickPrices : TickStart(y, price)
  \/ TickOuterNext
  \/ \E strict \in BOOLEAN : TickInnerNext(strict)
  \/ \E raises \in BOOLEAN : TickHandler(raises)

FeedInitAll ==
  /\ BridgeInit
  /\ env = [choices |-> OrderChoices, db_faults |-> FALSE]
  /\ SideIdle

FeedSpec == FeedInitAll /\ [][FeedNext]_vars

\* ------------------------------------------------------------------ claims
EverQueued(id) == \E k \in 1..Len(enq_log) : enq_log[k] = id

HasStatus(id, statuses) == id \in DOMAIN orders /\ orders[id].status \in statuses

UserExposure(table, user_id) == Exposure(_get_user_positions(table, user_id))

UserSymbols(table, user_id) == HeldSymbols(_get_user_positions(table, user_id))

\* a step that starts a submit_order call in paper mode
PaperCallStarts ==
  /\ n_calls' = n_calls + 1
  /\ \/ \E c \in Callers : callers[c].pc = "idle" /\ callers'[c].pc = "upsert"
     \/ callers' = callers /\ returned'.mode = "paper"

\* a step that starts a paper call and returns the risk manager's rejection
PaperCallRejected ==
  n_calls' = n_calls + 1 /\ callers' = callers /\ returned'.mode = "paper"

\* the step with which an allowed paper call returns
PaperCallReturns(c) == callers[c].pc = "upsert" /\ callers'[c].pc = "idle"

\* C1: while the bridge is not shut down, every order accepted in live mode
\* eventually has status filled or failed, whatever the broker does.
C1_LiveOrderReachesTerminal ==
  \A id \in 1..MaxOrders :
    [](EverQueued(id) => <>(stop \/ HasStatus(id, {"filled", "failed"})))

\* C2 (as claimed): a paper-mode submit_order never changes orders_queue and
\* always returns a result in which exec_price is set.
C2_PaperAlwaysReturnsExecPrice ==
  [][ /\ (PaperCallStarts \/ \E c \in Callers : PaperCallReturns(c))
         => orders_queue' = orders_queue
      /\ (PaperCallRejected \/ \E c \in Callers : PaperCallReturns(c))
         => returned'.result.exec_price # {} ]_vars

\* C2 (amended): no step of a paper-mode submit_order changes orders_queue;
\* the call returns {ok: true, exec_price, paper: true} with exec_price set
\* when the risk manager allows the order, and {ok: false, reason} without
\* an exec_price when it does not.
C2_PaperNeverQueuesResultByVerdict ==
  [][ /\ (PaperCallStarts \/ \E c \in Callers : PaperCallReturns(c))
         => orders_queue' = orders_queue
      /\ PaperCallRejected
         => /\ returned'.result.ok = {FALSE}
            /\ returned'.result.reason # {}
            /\ returned'.result.exec_price = {}
      /\ \A c \in Callers : PaperCallReturns(c)
         => /\ returned'.result.ok = {TRUE}
            /\ returned'.result.paper = {TRUE}
            /\ returned'.result.exec_price = {callers[c].exec_price}
            /\ returned'.mode = "paper" ]_vars

\* a paper call has returned a fill while a live order waits in the queue
C2_Witness ==
  /\ returned.mode = "paper"
  /\ returned.result.exec_price # {}
  /\ orders_queue # <<>>

LifecycleMoves ==
  {<<"new", "rejected">>, <<"new", "queued">>, <<"queued", "filled">>,
   <<"queued", "failed">>}

\* C3: the status of an order that was submitted before changes only along
\* new -> rejected, new -> queued, queued -> filled, queued -> failed, and an
\* order waiting in the queue has status queued, in memory and in its
\* persisted row.
C3_StatusLifecycle ==
  /\ [][ \A id \in DOMAIN orders :
           orders'[id].status # orders[id].status
           => <<orders[id].status, orders'[id].status>> \in LifecycleMoves ]_vars
  /\ [](\A k \in 1..Len(orders_queue) :
          /\ orders[orders_queue[k].id].status = "queued"
          /\ db_orders[orders_queue[k].id].status = "queued")

\* C4: once an order's status is filled, failed or rejected, no step changes
\* its status or starts another fill of it.
C4_TerminalAbsorbing ==
  [][ \A id \in DOMAIN orders :
        orders[id].status \in Terminal
        => /\ orders'[id].status = orders[id].status
           /\ ~ \E c \in Callers : /\ callers[c].pc = "idle"
                                   /\ callers'[c].pc = "upsert"
                                   /\ callers'[c].order = id
           /\ ~ (worker.pc = "execute" /\ worker.entry.id = id
                 /\ worker'.pc = "upsert") ]_vars

\* C5: for every order, in memory and in its persisted row, executed_at is
\* set exactly when the status is filled.
C5_ExecutedAtIffFilled ==
  /\ \A id \in DOMAIN orders :
       (orders[id].executed_at # {}) <=> (orders[id].status = "filled")
  /\ \A id \in DOMAIN db_orders :
       (db_orders[id].executed_at # 0) <=> (db_orders[id].status = "filled")

\* C6: for every user whose limits were in force before the user's first
\* order, the exposure, the sum of |qty| x avg_price over the user's
\* positions, is at most max_exposure.
C6_ExposureWithinLimit ==
  \A u \in Users \ relimited :
    UserExposure(positions, u) <= user_limits[u].max_exposure

\* C7: for every user whose limits were in force before the user's first
\* order, the number of symbols the user holds is at most max_positions.
C7_PositionCountWithinLimit ==
  \A u \in Users \ relimited :
    Cardinality(UserSymbols(positions, u)) <= user_limits[u].max_positions

FilledOrders(user_id, symbol) ==
  {id \in DOMAIN orders : /\ orders[id].user_id = user_id
                          /\ orders[id].symbol = symbol
                          /\ orders[id].status = "filled"}

RECURSIVE SumSigned(_)
SumSigned(ids) ==
  IF ids = {} THEN 0
  ELSE LET id == CHOOSE x \in ids : TRUE
       IN SignedQty(orders[id]) + SumSigned(ids \ {id})

NoFillInProgress ==
  /\ worker.pc \in {"loop", "pop", "exited"}
  /\ \A c \in Callers : callers[c].pc = "idle"

\* C8: when no fill is in progress, the positions row of every (user,
\* symbol) holds the sum of the signed quantities of the user's filled
\* orders in the symbol, and there is no row exactly when the sum is zero.
C8_PositionEqualsFilledOrders ==
  NoFillInProgress =>
    \A u \in Users, y \in Symbols :
      LET rows == MatchingRows(positions, u, y)
          total == SumSigned(FilledOrders(u, y))
      IN /\ (rows = {}) <=> (total = 0)
         /\ \A k \in rows : positions[k].qty = total

\* C9: the positions table holds at most one row per (user, symbol), and no
\* upsert is lost: the row holds the sum of all fills applied to the pair
\* and is absent exactly when they net to zero.
C9_OneRowPerUserSymbol ==
  \A u \in Users, y \in Symbols :
    LET rows == MatchingRows(positions, u, y)
    IN /\ Cardinality(rows) <= 1
       /\ (rows = {}) <=> (fills[u][y] = 0)
       /\ \A k \in rows : positions[k].qty = fills[u][y]

\* a paper call is about to upsert the pair whose row the worker's fill,
\* applied after the call read the positions, already wrote
C9_Witness ==
  \E c \in Callers :
    /\ callers[c].pc = "upsert"
    /\ exec_log # <<>>
    /\ worker.pc = "loop"
    /\ LET mine == orders[callers[c].order]
           theirs == orders[exec_log[Len(exec_log)].id]
       IN /\ mine.user_id = theirs.user_id
          /\ mine.symbol = theirs.symbol
          /\ theirs.status = "filled"
          /\ MatchingRows(positions, mine.user_id, mine.symbol) # {}

\* C10: the broker gets the queued orders in the order they were queued,
\* each queue entry at most once, and only entries that submit_order queued.
C10_FifoNoReexecution ==
  /\ \A i, j \in 1..Len(exec_log) : i < j => exec_log[i].seq < exec_log[j].seq
  /\ \A k \in 1..Len(exec_log) :
       /\ exec_log[k].seq \in 1..Len(enq_log)
       /\ enq_log[exec_log[k].seq] = exec_log[k].id
  /\ \A id \in DOMAIN orders :
       Cardinality({k \in 1..Len(exec_log) : exec_log[k].id = id}) <= Count(enq_log, id)

\* the broker has been given two different orders
C10_Witness ==
  /\ Len(exec_log) = 2
  /\ exec_log[1].id # exec_log[2].id

\* ---------------------------------------------- claims about assess_order
Assessed == assess_result # <<>>

\* the price of an order as the specification resolves it: the order's
\* price if one is given, otherwise the broker's market price
ResolvedPrice == IF assess_args.order.price # {} THEN Val(assess_args.order.price)
                 ELSE assess_args.market

ClaimedNotional == Abs(assess_args.order.qty) * ResolvedPrice

WithinLimits ==
  LET l == assess_args.limits
      held == HeldSymbols(assess_args.current_positions)
  IN /\ assess_args.order.side = "buy"
     /\ assess_args.order.qty > 0
     /\ ClaimedNotional * 100 <= l.max_exposure * l.max_order_size_pct
     /\ ClaimedNotional + Exposure(assess_args.current_positions) <= l.max_exposure
     /\ \/ assess_args.order.symbol \in held
        \/ Cardinality(held) < l.max_positions

\* C11 (as claimed): a buy order with qty > 0 whose notional is within the
\* per-order limit, whose notional plus the existing exposure is within
\* max_exposure, and whose symbol is held or fits max_positions, is allowed
\* with reason "ok".
C11_AllowedWithinLimits ==
  (Assessed /\ WithinLimits) => assess_result = <<TRUE, "ok">>

\* C11 (amended): the same for orders whose notional is also positive.
C11_AllowedWithinLimitsPositiveNotional ==
  (Assessed /\ WithinLimits /\ ClaimedNotional > 0)
    => assess_result = <<TRUE, "ok">>

\* an order for a held symbol was allowed while the user is at max_positions
\* and the order takes the exposure exactly to max_exposure
C11_Witness ==
  /\ Assessed
  /\ WithinLimits
  /\ ClaimedNotional > 0
  /\ Cardinality(HeldSymbols(assess_args.current_positions))
       >= assess_args.limits.max_positions
  /\ ClaimedNotional + Exposure(assess_args.current_positions)
       = assess_args.limits.max_exposure
  /\ assess_result = <<TRUE, "ok">>

\* C12: an order with qty = 0, or whose resolved price is <= 0, is rejected
\* with reason invalid_order_notional, whatever the positions and limits.
C12_InvalidNotionalRejected ==
  (Assessed /\ (assess_args.order.qty = 0 \/ ResolvedPrice <= 0))
    => assess_result = <<FALSE, "invalid_order_notional">>

FixedReasons == {"invalid_order_notional", "order_too_large_per_order_limit",
                 "would_exceed_max_exposure", "max_positions_reached"}

\* the fixed string of the first check that fails, on the notional that
\* assess_order computes; "ok" when none fails
FirstFailingCheck ==
  LET l == assess_args.limits
      held == HeldSymbols(assess_args.current_positions)
      notional == Abs(assess_args.order.qty)
                    * OrElse(assess_args.order.price, assess_args.market)
  IN IF notional <= 0 THEN "invalid_order_notional"
     ELSE IF notional * 100 > l.max_exposure * l.max_order_size_pct
     THEN "order_too_large_per_order_limit"
     ELSE IF Exposure(assess_args.current_positions) + notional > l.max_exposure
     THEN "would_exceed_max_exposure"
     ELSE IF assess_args.order.symbol \notin held
             /\ Cardinality(held) >= l.max_positions
     THEN "max_positions_reached"
     ELSE "ok"

\* C13: the reason of every rejection is one of the four fixed strings, the
\* one of the first check that fails (notional, per-order size, total
\* exposure, position count).
C13_ReasonFromFixedVocabulary ==
  (Assessed /\ ~assess_result[1])
    => /\ assess_result[2] \in FixedReasons
       /\ assess_result[2] = FirstFailingCheck

\* C14: every order with a zero or negative qty is rejected by the risk
\* manager, so no order with qty <= 0 is filled or queued for the broker.
C14_NonPositiveQtyNeverFilled ==
  \A id \in DOMAIN orders :
    orders[id].qty <= 0
      => /\ orders[id].status = "rejected"
         /\ ~ EverQueued(id)
         /\ \A c \in Callers : callers[c].order # id

\* --------------------------------------- claims about db_upsert_position
NoRowBefore ==
  MatchingRows(up_args.before, up_args.fill.user_id, up_args.fill.symbol) = {}

\* C15: from a table with no row for (user, symbol), a buy fill of q > 0 at
\* price p followed by a sell fill of the same q at the same p leaves no
\* row for (user, symbol) and every other row as it was.
C15_BuyThenSellLeavesNoRow ==
  (up_step = 2 /\ NoRowBefore)
    => /\ MatchingRows(up_table, up_args.fill.user_id, up_args.fill.symbol) = {}
       /\ up_table = up_args.before

\* the pair of fills was applied to a table that holds rows of the same
\* user and of the same symbol, but none of the pair
C15_Witness ==
  /\ up_step = 2
  /\ NoRowBefore
  /\ \E k \in 1..Len(up_args.before) :
       up_args.before[k].user_id = up_args.fill.user_id
  /\ \E k \in 1..Len(up_args.before) :
       up_args.before[k].symbol = up_args.fill.symbol
  /\ up_table = up_args.before

\* ------------------------------------------- claims about the tick feed
\* C16: update_market_price over an unchanging registry calls
\* handle_market_tick at most once per registered bot and, when it has
\* returned, exactly once for each, whichever handlers raised; and from its
\* first step on the market cache holds the new price.
C16_FanOutSurvivesHandlerErrors ==
  /\ tick.pc # "idle" => market_cache[tick.symbol] = {tick.price}
  /\ tick_log.changed_by = {}
       => /\ tick.pc # "raised"
          /\ \A bot \in Bots :
               /\ tick_log.notified[bot] <= 1
               /\ tick_log.notified[bot] = 1 => bot \in tick_log.at_start
          /\ tick.pc = "returned"
               => \A bot \in tick_log.at_start : tick_log.notified[bot] = 1

\* a call has returned in which the handler of every one of three or more
\* bots, of both users, raised
C16_Witness ==
  /\ tick.pc = "returned"
  /\ tick_log.changed_by = {}
  /\ Cardinality(tick_log.at_start) >= 3
  /\ tick_log.raised = tick_log.at_start
  /\ \A bot \in tick_log.at_start : tick_log.notified[bot] = 1

\* C20: update_market_price never leaves by an exception, and when it has
\* returned it has notified every bot that was registered during the whole
\* call, also when the registry changed during the call.
C20_NothingEscapesTickDispatch ==
  /\ tick.pc # "raised"
  /\ tick.pc = "returned"
       => \A bot \in tick_log.at_start \ tick_log.removed :
            tick_log.notified[bot] >= 1

\* ------------------------------- claims about rejections and failures
\* a step that is a whole submit_order call returning {ok: false, reason}
RejectionStep ==
  /\ n_calls' = n_calls + 1
  /\ callers' = callers
  /\ returned'.result.ok = {FALSE}

\* C17: a submit_order call that the risk manager disallows persists the
\* order with status rejected and the reason in meta.reject_reason, writes
\* one audit entry, returns {ok: false, reason}, and changes nothing else:
\* not the queue, the positions, the balances, another order, and it emits
\* no event.
C17_RejectionFrame ==
  [][ RejectionStep =>
        /\ returned'.result = Rejected(Val(returned'.result.reason))
        /\ \E id \in DOMAIN orders' :
             /\ orders'[id].status = "rejected"
             /\ orders'[id].reject_reason = returned'.result.reason
             /\ db_orders'[id] = OrderRow(orders'[id])
             /\ \A j \in DOMAIN orders \ {id} :
                  orders'[j] = orders[j] /\ db_orders'[j] = db_orders[j]
             /\ DOMAIN orders' = DOMAIN orders \cup {id}
             /\ DOMAIN db_orders' = DOMAIN db_orders \cup {id}
        /\ audit' = db_insert_audit(audit, "Order rejected by risk manager")
        /\ orders_queue' = orders_queue
        /\ positions' = positions
        /\ balances' = balances
        /\ emitted' = emitted ]_vars

\* a live order was rejected while another order waits in the queue
C17_Witness ==
  /\ returned.mode = "live"
  /\ returned.result.ok = {FALSE}
  /\ returned.result.reason # {}
  /\ orders_queue # <<>>
  /\ \E id \in DOMAIN orders : orders[id].status = "rejected"

\* a step in which the worker is done with an order without a fill and
\* without an exception: the broker answered {ok: false, error}
BrokerRefusedStep ==
  /\ worker.pc = "execute"
  /\ worker'.pc = "loop"
  /\ audit'["Order processing exception"] = audit["Order processing exception"]

\* C18: when the broker answers {ok: false, error}, the worker sets the
\* order's status to failed, records the error in meta.broker_error,
\* persists the order, emits one order_failed and no order_filled event,
\* and leaves every position row and every balance unchanged.
C18_BrokerRefusalMarksFailed ==
  [][ BrokerRefusedStep =>
        LET id == worker.entry.id IN
        /\ orders'[id].status = "failed"
        /\ orders'[id].broker_error # {}
        /\ db_orders'[id] = OrderRow(orders'[id])
        /\ emitted'[id]["order_failed"] = emitted[id]["order_failed"] + 1
        /\ emitted'[id]["order_filled"] = emitted[id]["order_filled"]
        /\ \A j \in DOMAIN emitted \ {id} : emitted'[j] = emitted[j]
        /\ positions' = positions
        /\ balances' = balances ]_vars

\* the broker refused an order for insufficient funds after it had filled
\* another one
C18_Witness ==
  /\ positions # <<>>
  /\ \E id \in DOMAIN orders :
       /\ orders[id].status = "failed"
       /\ orders[id].broker_error = {"insufficient_funds"}
       /\ db_orders[id].status = "failed"
       /\ emitted[id]["order_failed"] = 1
       /\ emitted[id]["order_filled"] = 0

\* a step in which processing the dequeued order ended by an exception:
\* the worker is done with the order without a fill and without the
\* broker's refusal
ProcessingRaisedStep ==
  /\ worker.pc = "execute"
  /\ worker'.pc \notin {"execute", "upsert"}
  /\ audit'["Broker execute failed"] = audit["Broker execute failed"]

\* C19: when processing a dequeued order raises (the broker's execute_order,
\* or a persistence call after the broker filled), the exception stays in
\* the worker thread, which goes on with the queue as it is; one
\* order_failed event and no order_filled event is emitted for the order.
C19_ExceptionEmitsOneOrderFailed ==
  [][ ProcessingRaisedStep =>
        LET id == worker.entry.id IN
        /\ worker'.pc = "loop"
        /\ orders_queue' = orders_queue
        /\ emitted'[id]["order_failed"] = emitted[id]["order_failed"] + 1
        /\ emitted'[id]["order_filled"] = emitted[id]["order_filled"] ]_vars

\* ------------------------------------------------- claims about shutdown
\* C21: no queue entry that was in orders_queue when shutdown set the stop
\* flag is passed to broker.execute_order, and once shutdown has returned
\* the broker is not called for a queued order any more.
C21_ShutdownDrainsWithoutExecuting ==
  /\ [](\A k \in 1..Len(exec_log) : exec_log[k] \notin at_stop)
  /\ [][shut = "done" => exec_log' = exec_log]_vars

\* a step of the heartbeat loop that emits the heartbeat event
HeartbeatEmitted == heartbeat = "emit" /\ heartbeat' = "test"

\* a step in which the order-processing loop takes an order from the queue
WorkerDequeues == worker.pc = "pop" /\ worker'.pc = "execute"

LoopsExited == worker.pc = "exited" /\ heartbeat = "exited"

\* C22: once shutdown() has been called, the order-processing loop and the
\* heartbeat loop eventually exit, and from then on the heartbeat loop
\* emits no heartbeat event and the order-processing loop takes no order
\* from the queue and calls the broker for none.
C22_LoopsExitAfterShutdown ==
  /\ (shut # "idle") ~> LoopsExited
  /\ [][ LoopsExited => /\ ~ HeartbeatEmitted
                         /\ ~ WorkerDequeues
                         /\ exec_log' = exec_log
                         /\ LoopsExited' ]_vars

\* both loops have exited while an order that was accepted after the
\* heartbeat had been emitted is left in the queue
C22_Witness ==
  /\ LoopsExited
  /\ shut = "done"
  /\ orders_queue # <<>>
  /\ exec_log # <<>>

\* a step that is a cancel_order call
CancelStep == cancelled' # cancelled

\* C23: a cancel_order call, for any id and in any state, returns False and
\* leaves orders_queue, every order, every position row and every balance
\* unchanged, and the worker goes on with the orders whose id it was
\* called for.
C23_CancelHasNoEffectOnBridge ==
  /\ [][ CancelStep => /\ orders_queue' = orders_queue
                        /\ orders' = orders
                        /\ db_orders' = db_orders
                        /\ positions' = positions
                        /\ balances' = balances
                        /\ worker' = worker ]_vars
  /\ [](open_orders = {})

\* the worker has filled an order for whose id cancel_order was called
\* while the order was waiting in the queue
C23_Witness ==
  \E k \in 1..Len(exec_log) :
    /\ [id |-> exec_log[k].id, waiting |-> TRUE] \in cancelled
    /\ Count(enq_log, exec_log[k].id) = 1
    /\ orders[exec_log[k].id].status = "filled"
    /\ MatchingRows(positions, orders[exec_log[k].id].user_id,
                    orders[exec_log[k].id].symbol) # {}

\* ------------------------------------------ claims about the mock broker
\* exec_price x qty of the last call, from its arguments
LastCost ==
  LET o == bk_last.order
      price == IF o.price = {} THEN bk_last.market ELSE Val(o.price)
  IN (price + BrokerSlippage(price, bk_last.draw)) * o.qty

\* C24: no balance is ever negative; a buy whose cost exceeds the user's
\* balance returns {ok: false, error: insufficient_funds} and changes no
\* balance, every other buy debits and every sell credits exec_price x qty,
\* and no other user's balance changes.
C24_BalanceNeverNegative ==
  /\ \A u \in Users : bk_balances[u] >= 0
  /\ bk_last # <<>> =>
       LET o == bk_last.order
           u == o.user_id
           res == bk_last.result
       IN /\ \A v \in Users \ {u} : bk_balances[v] = bk_last.before[v]
          /\ IF o.side = "buy" /\ LastCost > bk_last.before[u]
             THEN /\ res.ok = FALSE
                  /\ res.error = {"insufficient_funds"}
                  /\ bk_balances = bk_last.before
             ELSE /\ res.ok = TRUE
                  /\ res.exec_price # {}
                  /\ Val(res.exec_price) * o.qty = LastCost
                  /\ bk_balances[u] = IF o.side = "buy"
                                      THEN bk_last.before[u] - LastCost
                                      ELSE bk_last.before[u] + LastCost

\* ----------------------------------------------------- claims about _emit
IsPrefix(a, b) == Len(a) <= Len(b) /\ \A k \in 1..Len(a) : a[k] = b[k]

\* C25: _emit never leaves by a listener's exception; the listeners it has
\* called are, in order, the first entries of the list registered for the
\* event, one call per registration, and when it returns it has called
\* every listener that was registered for the event when it was called,
\* whichever of them raised; no listener of another event is called.
C25_EmitCallsEveryListenerOnce ==
  /\ emitting.pc # "raised"
  /\ emitting.pc # "idle"
       => IsPrefix(emitting.called, event_listeners[emitting.event_name])
  /\ emitting.pc = "returned"
       => /\ IsPrefix(emitting.at_start, emitting.called)
          /\ \A k \in emitting.raised : k <= Len(emitting.called)

\* an _emit has returned after two or more listeners, the first of which raised,
\* while another event has a listener too
C25_Witness ==
  /\ emitting.pc = "returned"
  /\ Len(emitting.at_start) >= 2
  /\ 1 \in emitting.raised
  /\ emitting.called = emitting.at_start
  /\ \E e \in ListenedEvents \ {emitting.event_name} : event_listeners[e] # <<>>

\* ------------------------------------------ claims about the bot registry
\* the bot is in the registry, so update_market_price notifies it
InRegistry(obj) == bot_registry[BotKey(obj)] = obj

\* C26: after any register_bot and unregister_bot calls, every bot that
\* was registered at some time is active exactly when it is in the
\* registry.
C26_ActiveIffRegistered ==
  \A obj \in bot_log.registered : bot_active[obj] <=> InRegistry(obj)

\* --------------------------------------------- claims about avg_price
FillPriceSet == {seq_prices[k] : k \in 1..Len(seq_prices)}

\* lo <= cost / qty <= hi for a row with qty # 0
AvgPriceWithin(row, lo, hi) ==
  IF row.qty > 0
  THEN lo * row.qty <= row.cost /\ row.cost <= hi * row.qty
  ELSE hi * row.qty <= row.cost /\ row.cost <= lo * row.qty

\* C27: after any sequence of fills of a (user, symbol), the avg_price of
\* the stored row lies between the lowest and the highest execution price
\* of those fills, and is not negative.
C27_AvgPriceWithinFillPrices ==
  \A k \in 1..Len(seq_table) :
    /\ \E lo \in FillPriceSet : \E hi \in FillPriceSet :
         /\ \A price \in FillPriceSet : lo <= price /\ price <= hi
         /\ AvgPriceWithin(seq_table[k], lo, hi)
    /\ seq_table[k].cost * seq_table[k].qty >= 0

\* -------------------------------------- claims about the multi-bot manager
LastCall == mbm_call.last

\* C28: len(bots) never exceeds max_bots, and a create_bot call made while
\* len(bots) = max_bots returns the limit message and leaves bots and
\* tasks as they were.
C28_NeverMoreThanMaxBots ==
  /\ LenBots(mbm_bots) <= MbmMaxBots
  /\ (LastCall.op = "create_bot" /\ LenBots(LastCall.bots_before) = MbmMaxBots)
       => /\ LastCall.result = "limit"
          /\ mbm_bots = LastCall.bots_before
          /\ mbm_tasks = LastCall.tasks_before

\* create_bot has returned the limit message for a manager whose bots are
\* running
C28_Witness ==
  /\ LastCall.op = "create_bot"
  /\ LastCall.result = "limit"
  /\ LenBots(mbm_bots) = MbmMaxBots
  /\ \A bot_id \in 1..MbmMaxBots : mbm_tasks[bot_id] # 0
  /\ \E t \in 1..Len(mbm_loops) : mbm_loops[t].at = "sleeping"

\* C29: a create_bot call that reports "Bot #n ready." makes len(bots) one
\* more and leaves every bot that was in bots where it was.
C29_ReadyAddsUnderFreeId ==
  (LastCall.op = "create_bot" /\ LastCall.result = "ready")
    => /\ LenBots(mbm_bots) = LenBots(LastCall.bots_before) + 1
       /\ \A bot_id \in MbmIds :
            LastCall.bots_before[bot_id] # 0
              => mbm_bots[bot_id] = LastCall.bots_before[bot_id]

Alive(t) == mbm_loops[t].at \in {"new", "sleeping", "cancelling"}

LiveLoops(obj) == {t \in 1..Len(mbm_loops) : mbm_loops[t].obj = obj /\ Alive(t)}

\* the task is the one recorded in tasks for the bot whose run() it runs
Recorded(t) ==
  \E bot_id \in MbmIds : /\ mbm_bots[bot_id] = mbm_loops[t].obj
                          /\ mbm_tasks[bot_id] = t

AfterStopAll == MbmIdle /\ LastCall.op = "stop_all"

\* C30: when no manager call is in progress, every bot has at most one
\* live run loop and every live run loop is the task recorded for its bot
\* in tasks; after stop_all has returned, and until the next call, no run
\* loop is alive and no bot's balance changes.
C30_OneRecordedLoopPerBot ==
  /\ [](MbmIdle =>
          /\ \A obj \in 1..Len(mbm_objs) : Cardinality(LiveLoops(obj)) <= 1
          /\ \A t \in 1..Len(mbm_loops) : Alive(t) => Recorded(t))
  /\ [](AfterStopAll => \A t \in 1..Len(mbm_loops) : ~ Alive(t))
  /\ [][ (AfterStopAll /\ AfterStopAll')
           => \A obj \in 1..Len(mbm_objs) :
                mbm_objs'[obj].profits = mbm_objs[obj].profits ]_vars

====
